---- MODULE Spec2Model ----
(***************************************************************************)
(* A model of devicebezels/catalog.py: the viewport detector              *)
(* (compute_viewport), the per-asset record (describe_png, slugify,       *)
(* path_has_shadow) and the catalog builder (build_catalog, main).        *)
(*                                                                         *)
(* Arithmetic is exact: the code's float products cw * (cap / max_dim)    *)
(* and v * (1.0 / scale) are modelled as the rationals they approximate.  *)
(* Strings are sequences of character codes; paths are sequences of       *)
(* strings (Path.parts).                                                   *)
(***************************************************************************)
EXTENDS Integers, Sequences, FiniteSets, TLC

VARIABLES
    \* compute_viewport
    image,        \* the decoded image: [w, h, bands, alpha, kind, layout]
    cap,          \* MAX_MASK_DIMENSION in force for this run
    pc,           \* position inside compute_viewport
    device_bbox,  \* device_bbox (line 66), or NoBox
    scale,        \* scale as the fraction <<num, den>> (lines 73, 76)
    scaled_mask,  \* scaled_mask: the set of pixels whose value is 255
    mask_size,    \* scaled_mask.size
    mask_in,      \* scaled_mask as it was when the flood loop was entered
    ret,          \* which return statement was taken
    viewport,     \* the returned ((left, top), (width, height))
    \* slugify, path_has_shadow
    npc,          \* which of the two is being called, or "return"
    value,        \* slugify's argument
    slug,         \* slugify's result
    path,         \* the asset's path, as its parts
    has_shadow,   \* the record's has_shadow
    \* build_catalog, main
    cpc,          \* position inside main / build_catalog
    tree,         \* the PNG files under devices_root
    yielded,      \* the files iter_device_pngs has yielded, in order
    files,        \* build_catalog's files list
    catalog,      \* build_catalog's return value, or NoCatalog
    output,       \* the content of the output file, or NoFile
    error         \* the exception that ended the run, or "none"

vpvars == <<image, cap, pc, device_bbox, scale, scaled_mask, mask_size,
            mask_in, ret, viewport>>
nvars == <<npc, value, slug, path, has_shadow>>
cvars == <<cpc, tree, yielded, files, catalog, output, error>>
vars == <<vpvars, nvars, cvars>>

-----------------------------------------------------------------------------
(* Program constants.                                                      *)

ALPHA_THRESHOLD == 10
SOLID_ALPHA_THRESHOLD == 200

(* "device with shadow" *)
device_with_shadow ==
    <<100, 101, 118, 105, 99, 101, 32, 119, 105, 116, 104, 32, 115, 104,
      97, 100, 111, 119>>

(* "device with shadows" *)
device_with_shadows ==
    <<100, 101, 118, 105, 99, 101, 32, 119, 105, 116, 104, 32, 115, 104,
      97, 100, 111, 119, 115>>

(* "unknown" *)
unknown == <<117, 110, 107, 110, 111, 119, 110>>

(* "Device With Shadow" *)
SegTitleCase ==
    <<68, 101, 118, 105, 99, 101, 32, 87, 105, 116, 104, 32, 83, 104, 97,
      100, 111, 119>>

(* "DEVICE WITH SHADOWS" *)
SegUpperPlural ==
    <<68, 69, 86, 73, 67, 69, 32, 87, 73, 84, 72, 32, 83, 72, 65, 68, 79,
      87, 83>>

(* "dEVICE wITH sHADOw" *)
SegMixedCase ==
    <<100, 69, 86, 73, 67, 69, 32, 119, 73, 84, 72, 32, 115, 72, 65, 68,
      79, 119>>

(* "device-with-shadow" *)
SegHyphenated ==
    <<100, 101, 118, 105, 99, 101, 45, 119, 105, 116, 104, 45, 115, 104,
      97, 100, 111, 119>>

(* "my device with shadow" *)
SegPrefixed ==
    <<109, 121, 32, 100, 101, 118, 105, 99, 101, 32, 119, 105, 116, 104,
      32, 115, 104, 97, 100, 111, 119>>

(* "device with shadow " *)
SegTrailingSpace ==
    <<100, 101, 118, 105, 99, 101, 32, 119, 105, 116, 104, 32, 115, 104,
      97, 100, 111, 119, 32>>

(* "Device With Shadows2" *)
SegSuffixed ==
    <<68, 101, 118, 105, 99, 101, 32, 87, 105, 116, 104, 32, 83, 104, 97,
      100, 111, 119, 115, 50>>

(* "iPhone 15" *)
SegDevice == <<105, 80, 104, 111, 110, 101, 32, 49, 53>>

(* "/" *)
SegRoot == <<47>>

(* "f.png" *)
FilePlain == <<102, 46, 112, 110, 103>>

(* "device with shadow.png" *)
FileShadowName ==
    <<100, 101, 118, 105, 99, 101, 32, 119, 105, 116, 104, 32, 115, 104,
      97, 100, 111, 119, 46, 112, 110, 103>>

(* "Device With Shadow.PNG" *)
FileUpperSuffix ==
    <<68, 101, 118, 105, 99, 101, 32, 87, 105, 116, 104, 32, 83, 104, 97,
      100, 111, 119, 46, 80, 78, 71>>

SHADOW_DIR_NAMES == {device_with_shadow, device_with_shadows}

(* Bounds of the model.  The code's cap is 2000; the model runs the same   *)
(* algorithm with every cap in CapValues so that masks stay enumerable.    *)
MinCap == 3
MaxCap == 4
MaxPixels == 12
MaxSmallPixels == 5
MaxFrameDim == 5
WideCap == 6
MaxLen == 4
MaxDepth == 2
MaxFiles == 3

CapValues == MinCap..MaxCap

-----------------------------------------------------------------------------
(* Strings: slugify and path_has_shadow.                                   *)

Hyphen == <<45>>
Slash == <<47>>

(* str.lower() on one character (ASCII and Latin-1 capitals).              *)
LowerChar(c) ==
    IF c \in 65..90 THEN c + 32
    ELSE IF c \in (192..222) \ {215} THEN c + 32
    ELSE c

(* str.lower()                                                             *)
lower(s) == [i \in 1..Len(s) |-> LowerChar(s[i])]

(* The characters str.strip() removes.                                     *)
Whitespace == (9..13) \cup (28..32) \cup {133, 160}

(* s without its leading, or trailing, characters of the set chars.        *)
RECURSIVE lstrip(_, _)
lstrip(s, chars) ==
    IF s # <<>> /\ Head(s) \in chars THEN lstrip(Tail(s), chars) ELSE s

RECURSIVE rstrip(_, _)
rstrip(s, chars) ==
    IF s # <<>> /\ s[Len(s)] \in chars
    THEN rstrip(SubSeq(s, 1, Len(s) - 1), chars)
    ELSE s

(* str.strip()                                                             *)
strip(s) == rstrip(lstrip(s, Whitespace), Whitespace)

(* str.strip("-")                                                          *)
strip_hyphens(s) == rstrip(lstrip(s, {45}), {45})

(* The class [a-z0-9] and its complement among the characters.             *)
InClass(c) == c \in (97..122) \cup (48..57)

OutsideClass == {c \in 0..255 : ~InClass(c)}

(* re.sub(r"[^a-z0-9]", "-", s): every character outside the class         *)
(* becomes a hyphen of its own.                                            *)
re_sub_each(s) == [i \in 1..Len(s) |-> IF InClass(s[i]) THEN s[i] ELSE 45]

(* re.sub(r"[^a-z0-9]+", "-", s): each maximal run of characters outside   *)
(* the class becomes one hyphen.                                           *)
RECURSIVE re_sub(_)
re_sub(s) ==
    IF s = <<>> THEN <<>>
    ELSE IF InClass(Head(s)) THEN <<Head(s)>> \o re_sub(Tail(s))
    ELSE Hyphen \o re_sub(lstrip(Tail(s), OutsideClass))

(* slugify, lines 21-26.                                                   *)
slugify(v) ==
    LET stripped == strip(v)
        lowered == lower(stripped)
        replaced == re_sub(lowered)
        trimmed == strip_hyphens(replaced)
    IN IF trimmed = <<>> THEN unknown ELSE trimmed

(* name in part: name occurs somewhere inside part.                        *)
Contains(part, name) ==
    \E i \in 1..(Len(part) - Len(name) + 1) :
        SubSeq(part, i, i + Len(name) - 1) = name

path_has_shadow_substring(parts) ==
    \E i \in 1..Len(parts) :
        \E name \in SHADOW_DIR_NAMES : Contains(lower(parts[i]), name)

(* path_has_shadow, lines 29-31.                                           *)
path_has_shadow(parts) ==
    \E i \in 1..Len(parts) : lower(parts[i]) \in SHADOW_DIR_NAMES

(* Path.parent: the parts without the last one.                            *)
Parent(parts) == SubSeq(parts, 1, Len(parts) - 1)

(* Path.stem: the last part without its last suffix; a leading dot starts  *)
(* no suffix.                                                              *)
Stem(parts) ==
    LET name == parts[Len(parts)]
        dots == {i \in 2..Len(name) : name[i] = 46}
    IN IF dots = {} THEN name
       ELSE SubSeq(name, 1, (CHOOSE i \in dots : \A j \in dots : j <= i) - 1)

(* "/".join(parts)                                                         *)
RECURSIVE Join(_)
Join(parts) ==
    IF parts = <<>> THEN <<>>
    ELSE IF Len(parts) = 1 THEN parts[1]
    ELSE parts[1] \o Slash \o Join(Tail(parts))

(* str(path) / path.as_posix(): the root, when there is one, is not        *)
(* followed by a second slash.                                             *)
PathStr(parts) ==
    IF parts # <<>> /\ parts[1] = Slash
    THEN Slash \o Join(Tail(parts))
    ELSE Join(parts)

IsPrefix(a, b) == Len(a) <= Len(b) /\ SubSeq(b, 1, Len(a)) = a

(* relative_path, lines 34-38: relative to repo_root when under it, else   *)
(* the path as it is.                                                      *)
relative_path(parts, repo_root) ==
    IF IsPrefix(repo_root, parts)
    THEN PathStr(SubSeq(parts, Len(repo_root) + 1, Len(parts)))
    ELSE PathStr(parts)

-----------------------------------------------------------------------------
(* Images and masks.                                                       *)

Pixels(w, h) == (0..(w - 1)) \X (0..(h - 1))

NoBox == <<>>

Max(a, b) == IF a >= b THEN a ELSE b

SetMin(S) == CHOOSE m \in S : \A n \in S : m <= n
SetMax(S) == CHOOSE m \in S : \A n \in S : m >= n

(* Image.getbbox: the bounding box (left, upper, right, lower) of the      *)
(* non-zero pixels, right and lower exclusive; None when there are none.   *)
getbbox(P) ==
    IF P = {} THEN NoBox
    ELSE LET xs == {p[1] : p \in P}
             ys == {p[2] : p \in P}
         IN <<SetMin(xs), SetMin(ys), SetMax(xs) + 1, SetMax(ys) + 1>>

(* alpha.point(lambda value: 255 if value <= ALPHA_THRESHOLD else 0)       *)
transparent_mask(img) ==
    {p \in Pixels(img.w, img.h) : img.alpha[p] <= ALPHA_THRESHOLD}

(* alpha.point(lambda value: 255 if value >= SOLID_ALPHA_THRESHOLD else 0) *)
solid_mask(img) ==
    {p \in Pixels(img.w, img.h) : img.alpha[p] >= SOLID_ALPHA_THRESHOLD}

(* alpha.getbbox() looks at the non-zero alpha samples.                    *)
alpha_nonzero(img) == {p \in Pixels(img.w, img.h) : img.alpha[p] # 0}

(* device_bbox = solid_mask.getbbox() or alpha.getbbox()                   *)
DeviceBBox(img) ==
    IF getbbox(solid_mask(img)) # NoBox
    THEN getbbox(solid_mask(img))
    ELSE getbbox(alpha_nonzero(img))

(* Image.crop(box): the pixels inside box, in the box's own coordinates.   *)
crop(P, box) ==
    {<<p[1] - box[1], p[2] - box[2]>> :
        p \in {q \in P : /\ box[1] <= q[1] /\ q[1] < box[3]
                         /\ box[2] <= q[2] /\ q[2] < box[4]}}

(* int(math.ceil(n * num / den))                                           *)
CeilDiv(num, den) == (num + den - 1) \div den

(* new_size: max(1, ceil(crop dimension * scale)), scale = c / max_dim.    *)
NewSize(dim, c, max_dim) == Max(1, CeilDiv(dim * c, max_dim))

(* Nearest-neighbour resampling: output index i of n reads input index     *)
(* floor((i + 0.5) * size / n).                                            *)
NearestSource(i, size, n) == ((2 * i + 1) * size) \div (2 * n)

(* Image.resize(new_size, resample=Image.NEAREST)                          *)
resize(P, size, new_size) ==
    {q \in Pixels(new_size[1], new_size[2]) :
        <<NearestSource(q[1], size[1], new_size[1]),
          NearestSource(q[2], size[2], new_size[2])>> \in P}

-----------------------------------------------------------------------------
(* The border flood fill.                                                  *)

(* The eight neighbours, diagonals included.                               *)
Neighbours8(p) ==
    {<<p[1] + dx, p[2] + dy>> : dx \in {-1, 0, 1}, dy \in {-1, 0, 1}} \ {p}

(* ImageDraw.floodfill visits (x+1, y), (x-1, y), (x, y+1), (x, y-1).      *)
Neighbours(p) ==
    {<<p[1] + 1, p[2]>>, <<p[1] - 1, p[2]>>,
     <<p[1], p[2] + 1>>, <<p[1], p[2] - 1>>}

(* The fill's frontier loop: every neighbour of the current edge that      *)
(* still holds the background value (255) is cleared and joins the next    *)
(* edge; the loop ends when an edge is empty.                              *)
RECURSIVE FillFrontier(_, _)
FillFrontier(marked, edge) ==
    IF edge = {} THEN marked
    ELSE LET new_edge == {q \in UNION {Neighbours(p) : p \in edge} :
                             q \in marked}
         IN FillFrontier(marked \ new_edge, new_edge)

(* ImageDraw.floodfill(scaled_mask, (x, y), 0, thresh=0)                   *)
floodfill(marked, xy) == FillFrontier(marked \ {xy}, {xy})

(* flood_if_transparent(x, y)                                              *)
flood_if_transparent(marked, xy) ==
    IF xy \in marked THEN floodfill(marked, xy) ELSE marked

(* The seeds in the order the two loops visit them.                        *)
BorderSeeds(width, height) ==
    [i \in 1..(2 * width) |->
        IF i % 2 = 1 THEN <<(i - 1) \div 2, 0>>
                     ELSE <<(i - 1) \div 2, height - 1>>]
    \o
    [i \in 1..(2 * height) |->
        IF i % 2 = 1 THEN <<0, (i - 1) \div 2>>
                     ELSE <<width - 1, (i - 1) \div 2>>]

RECURSIVE FloodSeeds(_, _)
FloodSeeds(marked, seeds) ==
    IF seeds = <<>> THEN marked
    ELSE FloodSeeds(flood_if_transparent(marked, Head(seeds)), Tail(seeds))

(* Lines 92-97: both loops over the four edges.                            *)
FloodLoop(marked, width, height) ==
    FloodSeeds(marked, BorderSeeds(width, height))

-----------------------------------------------------------------------------
(* Remapping.                                                              *)

(* Python's round(): to the nearest integer, ties to the even one.         *)
RoundHalfEven(num, den) ==
    LET q == num \div den
        r == 2 * (num % den)
    IN IF r < den THEN q
       ELSE IF r > den THEN q + 1
       ELSE IF q % 2 = 0 THEN q ELSE q + 1

(* A reduction by a whole factor, ceil(max_dim / cap), undone likewise.     *)
RemapIntegerFactor(v, sc) == v * CeilDiv(sc[2], sc[1])

(* int(round(v * inverse_scale)), inverse_scale = 1 / scale                *)
Remap(v, sc) == RoundHalfEven(v * sc[2], sc[1])

(* An empty rectangle where the code returns the whole image.              *)
EmptyBounds(img) == <<<<0, 0>>, <<0, 0>>>>

(* (0, 0), (image.width, image.height)                                     *)
FullImageBounds(img) == <<<<0, 0>>, <<img.w, img.h>>>>

(* The right and bottom edges offset by the device box's far corner.       *)
RemapBoxFarOffset(vb, db, sc) ==
    LET left   == db[1] + Remap(vb[1], sc)
        top    == db[2] + Remap(vb[2], sc)
        right  == db[3] + Remap(vb[3], sc)
        bottom == db[4] + Remap(vb[4], sc)
    IN <<<<left, top>>, <<right - left, bottom - top>>>>

(* The device box's origin left out of the remapped edges.                 *)
RemapBoxNoOffset(vb, db, sc) ==
    LET left   == Remap(vb[1], sc)
        top    == Remap(vb[2], sc)
        right  == Remap(vb[3], sc)
        bottom == Remap(vb[4], sc)
    IN <<<<left, top>>, <<right - left, bottom - top>>>>

(* Lines 104-111.                                                          *)
RemapBox(vb, db, sc) ==
    LET left   == db[1] + Remap(vb[1], sc)
        top    == db[2] + Remap(vb[2], sc)
        right  == db[1] + Remap(vb[3], sc)
        bottom == db[2] + Remap(vb[4], sc)
    IN <<<<left, top>>, <<right - left, bottom - top>>>>

(* Lines 70-86: the cropped mask, downscaled when its larger dimension     *)
(* exceeds the cap c, with the box, the scale and the size that go with it.*)
prepare_mask(img, c) ==
    LET db == DeviceBBox(img)
        cropped_mask == crop(transparent_mask(img), db)
        crop_width == db[3] - db[1]
        crop_height == db[4] - db[2]
        max_dim == Max(crop_width, crop_height)
        new_size == <<NewSize(crop_width, c, max_dim),
                      NewSize(crop_height, c, max_dim)>>
    IN IF max_dim > c
       THEN [device_bbox |-> db, scale |-> <<c, max_dim>>, size |-> new_size,
             mask |-> resize(cropped_mask, <<crop_width, crop_height>>, new_size)]
       ELSE [device_bbox |-> db, scale |-> <<1, 1>>,
             size |-> <<crop_width, crop_height>>, mask |-> cropped_mask]

(* compute_viewport as one call, lines 52-111.                             *)
compute_viewport(img, c) ==
    IF img.bands # "RGBA" THEN FullImageBounds(img)
    ELSE IF DeviceBBox(img) = NoBox THEN FullImageBounds(img)
    ELSE LET m == prepare_mask(img, c)
             flooded == FloodLoop(m.mask, m.size[1], m.size[2])
         IN IF getbbox(flooded) = NoBox THEN FullImageBounds(img)
            ELSE RemapBox(getbbox(flooded), m.device_bbox, m.scale)

(* image.convert("RGBA"): an image without alpha becomes fully opaque.     *)
convert_rgba(img) ==
    IF img.bands = "RGBA" THEN img
    ELSE [img EXCEPT !.bands = "RGBA",
                     !.alpha = [p \in Pixels(img.w, img.h) |-> 255]]

-----------------------------------------------------------------------------
(* Input images.                                                           *)

SizesUpTo(n) == {s \in (1..n) \X (1..n) : s[1] * s[2] <= n}

NoLayout == [cx |-> <<0, 0, 0, 0>>, cy |-> <<0, 0, 0, 0>>, fa |-> 0, ha |-> 0]

RGBA(w, h, a) ==
    [w |-> w, h |-> h, bands |-> "RGBA", alpha |-> a,
     kind |-> "any", layout |-> NoLayout]

(* Every image of at most MaxPixels pixels, each pixel fully transparent   *)
(* or fully opaque.                                                        *)
BinaryImages ==
    UNION {{RGBA(s[1], s[2], a) : a \in [Pixels(s[1], s[2]) -> {0, 255}]} :
              s \in SizesUpTo(MaxPixels)}

(* Alpha values on both sides of each threshold.                           *)
AlphaSamples == {0, 1, ALPHA_THRESHOLD, ALPHA_THRESHOLD + 1,
                 SOLID_ALPHA_THRESHOLD - 1, SOLID_ALPHA_THRESHOLD, 255}

(* Every image of at most MaxSmallPixels pixels over four alpha classes:   *)
(* zero, near-transparent, in between, near-solid.                         *)
SmallImages ==
    UNION {{RGBA(s[1], s[2], a) :
               a \in [Pixels(s[1], s[2]) ->
                        {0, ALPHA_THRESHOLD, SOLID_ALPHA_THRESHOLD - 1,
                         SOLID_ALPHA_THRESHOLD}]} :
              s \in SizesUpTo(MaxSmallPixels)}

(* Images whose alpha is one value everywhere, and images without alpha.   *)
ConstantImages ==
    {RGBA(w, h, [p \in Pixels(w, h) |-> c]) :
        w \in 1..MaxFrameDim, h \in 1..MaxFrameDim, c \in AlphaSamples}

OpaqueFormatImages ==
    {[w |-> w, h |-> h, bands |-> "RGB", alpha |-> <<>>,
      kind |-> "any", layout |-> NoLayout] :
        w \in 1..MaxFrameDim, h \in 1..MaxFrameDim}

(* A frame of alpha fa with one rectangular hole of alpha ha inside it and *)
(* fully transparent padding around it.  Along each axis the cuts are      *)
(* 0 <= frame start < hole start < hole end < frame end <= image size.     *)
Cuts(n) ==
    {c \in (0..n) \X (0..n) \X (0..n) \X (0..n) :
        c[1] < c[2] /\ c[2] < c[3] /\ c[3] < c[4]}

FrameAlpha(w, h, l) ==
    [p \in Pixels(w, h) |->
        IF /\ l.cx[2] <= p[1] /\ p[1] < l.cx[3]
           /\ l.cy[2] <= p[2] /\ p[2] < l.cy[3] THEN l.ha
        ELSE IF /\ l.cx[1] <= p[1] /\ p[1] < l.cx[4]
                /\ l.cy[1] <= p[2] /\ p[2] < l.cy[4] THEN l.fa
        ELSE 0]

FrameImage(w, h, l) ==
    [w |-> w, h |-> h, bands |-> "RGBA", alpha |-> FrameAlpha(w, h, l),
     kind |-> "frame", layout |-> l]

FrameImages ==
    UNION {{FrameImage(w, h, [cx |-> cx, cy |-> cy, fa |-> fa, ha |-> ha]) :
               cx \in Cuts(w), cy \in Cuts(h),
               fa \in {SOLID_ALPHA_THRESHOLD - 1, 255},
               ha \in {0, ALPHA_THRESHOLD}} :
              w \in 3..MaxFrameDim, h \in 3..MaxFrameDim}

(* Frames without padding, larger than the cap WideCap in one dimension    *)
(* and shorter in the other, so that the two dimensions are resampled by   *)
(* different ratios.                                                       *)
WideFrames ==
    UNION {{FrameImage(s[1], s[2],
                       [cx |-> cx, cy |-> cy, fa |-> 255, ha |-> 0]) :
               cx \in {c \in Cuts(s[1]) : c[1] = 0 /\ c[4] = s[1]},
               cy \in {c \in Cuts(s[2]) : c[1] = 0 /\ c[4] = s[2]}} :
              s \in {<<WideCap + 4, WideCap + 1>>, <<WideCap + 1, WideCap + 4>>}}

Images ==
    BinaryImages \cup SmallImages \cup ConstantImages
        \cup OpaqueFormatImages \cup FrameImages

(* slugify's arguments: every string of at most MaxLen characters among    *)
(* space, hyphen, "@", "A", "z" and "8".                                   *)
SlugAlphabet == {32, 45, 64, 65, 122, 56}

SlugInputs == UNION {[1..n -> SlugAlphabet] : n \in 0..MaxLen}

(* Directory names: the shadow names in several cases, and near misses.    *)
Segments ==
    {device_with_shadow, device_with_shadows, SegTitleCase, SegUpperPlural,
     SegMixedCase, SegHyphenated, SegPrefixed, SegTrailingSpace, SegSuffixed,
     SegDevice, SegRoot}

(* File names as iter_device_pngs yields them: the suffix is ".png" in     *)
(* some case (line 48).                                                    *)
FileNames == {FilePlain, FileShadowName, FileUpperSuffix}

AssetPaths ==
    UNION {{dirs \o <<f>> : dirs \in [1..n -> Segments], f \in FileNames} :
              n \in 1..MaxDepth}

DeviceNames == {SegDevice, SegTitleCase}

(* The device tree of the catalog runs.                                    *)
RepoRoot == <<Slash, <<114>>>>
DevicesRoots == {RepoRoot \o <<<<100>>>>, <<Slash, <<111>>>>}

OpaquePhoto ==
    [w |-> 2, h |-> 2, bands |-> "RGB", alpha |-> <<>>,
     kind |-> "any", layout |-> NoLayout]

Bezel ==
    FrameImage(4, 3, [cx |-> <<1, 2, 3, 4>>, cy |-> <<0, 1, 2, 3>>,
                      fa |-> 255, ha |-> 0])

Asset(category, name, sub, img) ==
    [category |-> category, name |-> name, sub |-> sub, image |-> img]

(* Categories "a", "b"; devices "x", "x-y"; files "f.png" alone, under     *)
(* "s", under "s-t" and under "Device With Shadow".                        *)
AssetUniverse ==
    {Asset(<<97>>, <<120>>, <<<<115>>, FilePlain>>, Bezel),
     Asset(<<97>>, <<120>>, <<<<115, 45, 116>>, FilePlain>>, Bezel),
     Asset(<<97>>, <<120>>, <<FilePlain>>, OpaquePhoto),
     Asset(<<97>>, <<120, 45, 121>>, <<FilePlain>>, Bezel),
     Asset(<<98>>, <<120>>, <<FilePlain>>, Bezel),
     Asset(<<98>>, <<120>>, <<SegTitleCase, FilePlain>>, Bezel)}

Trees == {t \in SUBSET AssetUniverse : Cardinality(t) <= MaxFiles}

-----------------------------------------------------------------------------
(* compute_viewport, one action per stage.                                 *)

VIdle ==
    /\ image = OpaquePhoto
    /\ pc = "idle"
    /\ device_bbox = NoBox
    /\ scale = <<1, 1>>
    /\ scaled_mask = {}
    /\ mask_size = <<0, 0>>
    /\ mask_in = {}
    /\ ret = "none"
    /\ viewport = <<>>

NIdle ==
    /\ npc = "idle"
    /\ value = <<>>
    /\ slug = <<>>
    /\ path = <<>>
    /\ has_shadow = FALSE

CIdle ==
    /\ cpc = "idle"
    /\ tree = [root |-> <<>>, exists |-> FALSE, pngs |-> {}]
    /\ yielded = <<>>
    /\ files = <<>>
    /\ catalog = <<>>
    /\ output = <<>>
    /\ error = "none"

VInit ==
    /\ \/ /\ image \in Images
          /\ cap \in CapValues
       \/ /\ image \in WideFrames
          /\ cap = WideCap
    /\ pc = "call"
    /\ device_bbox = NoBox
    /\ scale = <<1, 1>>
    /\ scaled_mask = {}
    /\ mask_size = <<0, 0>>
    /\ mask_in = {}
    /\ ret = "none"
    /\ viewport = <<>>
    /\ NIdle
    /\ CIdle

(* Lines 58-60.                                                            *)
ReturnNoAlpha ==
    /\ pc = "call"
    /\ image.bands # "RGBA"
    /\ pc' = "return"
    /\ ret' = "no_alpha"
    /\ viewport' = FullImageBounds(image)
    /\ UNCHANGED <<image, cap, device_bbox, scale, scaled_mask, mask_size,
                   mask_in, nvars, cvars>>

(* Lines 62-68.                                                            *)
ReturnNoDevice ==
    /\ pc = "call"
    /\ image.bands = "RGBA"
    /\ DeviceBBox(image) = NoBox
    /\ pc' = "return"
    /\ ret' = "no_device"
    /\ viewport' = FullImageBounds(image)
    /\ UNCHANGED <<image, cap, device_bbox, scale, scaled_mask, mask_size,
                   mask_in, nvars, cvars>>

(* Lines 62-86 when a device box exists.                                   *)
Prepare ==
    /\ pc = "call"
    /\ image.bands = "RGBA"
    /\ DeviceBBox(image) # NoBox
    /\ LET m == prepare_mask(image, cap)
       IN /\ device_bbox' = m.device_bbox
          /\ scale' = m.scale
          /\ mask_size' = m.size
          /\ scaled_mask' = m.mask
          /\ mask_in' = m.mask
    /\ pc' = "flood"
    /\ UNCHANGED <<image, cap, ret, viewport, nvars, cvars>>

(* Lines 88-97.                                                            *)
FloodBorders ==
    /\ pc = "flood"
    /\ scaled_mask' = FloodLoop(scaled_mask, mask_size[1], mask_size[2])
    /\ pc' = "bbox"
    /\ UNCHANGED <<image, cap, device_bbox, scale, mask_size, mask_in, ret,
                   viewport, nvars, cvars>>

(* Lines 99-101.                                                           *)
ReturnNoAperture ==
    /\ pc = "bbox"
    /\ getbbox(scaled_mask) = NoBox
    /\ pc' = "return"
    /\ ret' = "no_aperture"
    /\ viewport' = FullImageBounds(image)
    /\ UNCHANGED <<image, cap, device_bbox, scale, scaled_mask, mask_size,
                   mask_in, nvars, cvars>>

(* Lines 99-111.                                                           *)
ReturnViewport ==
    /\ pc = "bbox"
    /\ getbbox(scaled_mask) # NoBox
    /\ pc' = "return"
    /\ ret' = "aperture"
    /\ viewport' = RemapBox(getbbox(scaled_mask), device_bbox, scale)
    /\ UNCHANGED <<image, cap, device_bbox, scale, scaled_mask, mask_size,
                   mask_in, nvars, cvars>>

VNext ==
    \/ ReturnNoAlpha
    \/ ReturnNoDevice
    \/ Prepare
    \/ FloodBorders
    \/ ReturnNoAperture
    \/ ReturnViewport

SpecViewport == VInit /\ [][VNext]_vars

-----------------------------------------------------------------------------
(* slugify called on its own, and the two path-derived fields of           *)
(* describe_png.                                                           *)

NInit ==
    /\ \/ /\ npc = "slugify"
          /\ value \in SlugInputs
          /\ path = <<>>
       \/ /\ npc = "describe"
          /\ value \in DeviceNames
          /\ path \in AssetPaths
    /\ slug = <<>>
    /\ has_shadow = FALSE
    /\ cap = MinCap
    /\ VIdle
    /\ CIdle

(* slugify(value), lines 21-26.                                            *)
SlugifyCall ==
    /\ npc = "slugify"
    /\ slug' = slugify(value)
    /\ npc' = "slugified"
    /\ UNCHANGED <<value, path, has_shadow, vpvars, cvars>>

(* describe_png, lines 122 and 127: value is device_name.                  *)
DescribeNames ==
    /\ npc = "describe"
    /\ slug' = slugify(value \o Hyphen \o Stem(path))
    /\ has_shadow' = path_has_shadow(Parent(path))
    /\ npc' = "described"
    /\ UNCHANGED <<value, path, vpvars, cvars>>

NNext == SlugifyCall \/ DescribeNames

SpecNames == NInit /\ [][NNext]_vars

-----------------------------------------------------------------------------
(* main and build_catalog.                                                 *)

(* Python's str < str: by the first differing character, a proper prefix   *)
(* first.                                                                  *)
RECURSIVE StrLess(_, _)
StrLess(a, b) ==
    IF b = <<>> THEN FALSE
    ELSE IF a = <<>> THEN TRUE
    ELSE IF Head(a) # Head(b) THEN Head(a) < Head(b)
    ELSE StrLess(Tail(a), Tail(b))

(* Python's tuple < tuple on tuples of strings.                            *)
RECURSIVE KeyLess(_, _)
KeyLess(k1, k2) ==
    IF k2 = <<>> THEN FALSE
    ELSE IF k1 = <<>> THEN TRUE
    ELSE IF Head(k1) # Head(k2) THEN StrLess(Head(k1), Head(k2))
    ELSE KeyLess(Tail(k1), Tail(k2))

(* A key that leaves relative_path out.                                    *)
SortKeyNoPath(entry) == <<entry.category, entry.name>>

(* lambda entry: (entry["category"], entry["name"], entry["relative_path"])*)
SortKey(entry) == <<entry.category, entry.name, entry.relative_path>>

(* list.sort(key=...): stable; each entry goes after the entries whose key *)
(* is not greater.                                                         *)
RECURSIVE Insert(_, _)
Insert(sorted, e) ==
    IF sorted = <<>> THEN <<e>>
    ELSE IF KeyLess(SortKey(e), SortKey(Head(sorted))) THEN <<e>> \o sorted
    ELSE <<Head(sorted)>> \o Insert(Tail(sorted), e)

RECURSIVE sort(_)
sort(list) ==
    IF list = <<>> THEN <<>>
    ELSE Insert(sort(SubSeq(list, 1, Len(list) - 1)), list[Len(list)])

(* The path of an asset: devices_root / category / device / ... / file.    *)
AssetPath(root, a) == root \o <<a.category, a.name>> \o a.sub

(* describe_png, lines 114-134 (size_bytes is left out).                   *)
describe_png(a, root, c) ==
    LET parts == AssetPath(root, a)
    IN [category |-> a.category,
        name |-> a.name,
        has_shadow |-> path_has_shadow(Parent(parts)),
        slug |-> slugify(a.name \o Hyphen \o Stem(parts)),
        relative_path |-> relative_path(parts, RepoRoot),
        image_dimensions |-> <<a.image.w, a.image.h>>,
        viewport |-> compute_viewport(convert_rgba(a.image), c)]

Range(s) == {s[i] : i \in 1..Len(s)}

Pending == tree.pngs \ Range(yielded)

CInit ==
    /\ cpc = "main"
    /\ tree \in {[root |-> r, exists |-> e, pngs |-> IF e THEN t ELSE {}] :
                    r \in DevicesRoots, e \in BOOLEAN, t \in Trees}
    /\ yielded = <<>>
    /\ files = <<>>
    /\ catalog = <<>>
    /\ output = <<>>
    /\ error = "none"
    /\ cap = MinCap
    /\ VIdle
    /\ NIdle

(* Lines 139-140.                                                          *)
RootNotFound ==
    /\ cpc = "main"
    /\ ~tree.exists
    /\ error' = "FileNotFoundError"
    /\ cpc' = "raised"
    /\ UNCHANGED <<tree, yielded, files, catalog, output, vpvars, nvars>>

(* Lines 139-142.                                                          *)
EnterBuild ==
    /\ cpc = "main"
    /\ tree.exists
    /\ files' = <<>>
    /\ cpc' = "iterating"
    /\ UNCHANGED <<tree, yielded, catalog, output, error, vpvars, nvars>>

(* Lines 143-144, the asset decodes: its record is appended.               *)
Describe(a) ==
    /\ cpc = "iterating"
    /\ a \in Pending
    /\ yielded' = Append(yielded, a)
    /\ files' = Append(files, describe_png(a, tree.root, cap))
    /\ UNCHANGED <<cpc, tree, catalog, output, error, vpvars, nvars>>

(* The failure caught and the asset skipped.                               *)
DescribeFailSkipped(a) ==
    /\ cpc = "iterating"
    /\ a \in Pending
    /\ yielded' = Append(yielded, a)
    /\ error' = "DecodeError"
    /\ UNCHANGED <<cpc, tree, files, catalog, output, vpvars, nvars>>

(* Lines 143-144 and 117, Image.open raises: nothing catches it, so        *)
(* build_catalog and main end there.                                       *)
DescribeFail(a) ==
    /\ cpc = "iterating"
    /\ a \in Pending
    /\ yielded' = Append(yielded, a)
    /\ error' = "DecodeError"
    /\ cpc' = "raised"
    /\ UNCHANGED <<tree, files, catalog, output, vpvars, nvars>>

(* Lines 146-152, once the iteration is exhausted.                         *)
ReturnCatalog ==
    /\ cpc = "iterating"
    /\ Pending = {}
    /\ files' = sort(files)
    /\ catalog' = <<[files_count |-> Len(files), files |-> files']>>
    /\ cpc' = "built"
    /\ UNCHANGED <<tree, yielded, output, error, vpvars, nvars>>

(* Lines 194-198.                                                          *)
WriteOutput ==
    /\ cpc = "built"
    /\ output' = catalog
    /\ cpc' = "written"
    /\ UNCHANGED <<tree, yielded, files, catalog, error, vpvars, nvars>>

CNext ==
    \/ RootNotFound
    \/ EnterBuild
    \/ \E a \in AssetUniverse : Describe(a)
    \/ \E a \in AssetUniverse : DescribeFail(a)
    \/ ReturnCatalog
    \/ WriteOutput

SpecCatalog == CInit /\ [][CNext]_vars

-----------------------------------------------------------------------------
(* Properties of compute_viewport.                                         *)

Left == viewport[1][1]
Top == viewport[1][2]
Width == viewport[2][1]
Height == viewport[2][2]

Downscaled == scale # <<1, 1>>

Abs(n) == IF n < 0 THEN -n ELSE n

(* C1: for every RGBA image, with or without the downscale, the returned   *)
(* rectangle has a non-negative origin and size and lies inside the image. *)
C1_ViewportInsideImage ==
    (pc = "return" /\ image.bands = "RGBA") =>
        /\ Left \in Nat /\ Top \in Nat /\ Width \in Nat /\ Height \in Nat
        /\ Left + Width <= image.w
        /\ Top + Height <= image.h

C1_Witness ==
    /\ pc = "return" /\ image.bands = "RGBA"
    /\ ret = "aperture" /\ Downscaled
    /\ Left + Width < image.w

(* The frame images the aperture claims speak of: a frame of alpha 255     *)
(* around a fully transparent hole.                                        *)
SolidFrame ==
    image.kind = "frame" /\ image.layout.fa = 255 /\ image.layout.ha = 0

FrameMaxDim ==
    Max(image.layout.cx[4] - image.layout.cx[1],
        image.layout.cy[4] - image.layout.cy[1])

HoleRectangle ==
    <<<<image.layout.cx[2], image.layout.cy[2]>>,
      <<image.layout.cx[3] - image.layout.cx[2],
        image.layout.cy[3] - image.layout.cy[2]>>>>

(* C2: a solid frame no larger than the cap, one transparent hole inside,  *)
(* transparent padding outside: the viewport is exactly the hole, whatever *)
(* the padding.                                                            *)
C2_ViewportIsHole ==
    (pc = "return" /\ SolidFrame /\ FrameMaxDim <= cap) =>
        viewport = HoleRectangle

C2_Witness ==
    /\ pc = "return" /\ SolidFrame /\ FrameMaxDim <= cap
    /\ image.layout.cx[1] > 0
    /\ image.layout.cy[4] < image.h
    /\ image.layout.cy[1] = 0

ConstantAlpha ==
    /\ image.bands = "RGBA"
    /\ \A p, q \in Pixels(image.w, image.h) : image.alpha[p] = image.alpha[q]

(* C3: an image without alpha, or with one alpha value everywhere, yields  *)
(* the full image bounds: origin (0, 0), size (width, height).             *)
C3_ConstantAlphaFullBounds ==
    (pc = "return" /\ (image.bands # "RGBA" \/ ConstantAlpha)) =>
        viewport = <<<<0, 0>>, <<image.w, image.h>>>>

C3_Witness ==
    /\ pc = "return" /\ ConstantAlpha
    /\ image.alpha[<<0, 0>>] = ALPHA_THRESHOLD
    /\ Downscaled /\ ret = "no_aperture"
    /\ image.h > 1

(* C6, as claimed: for a solid frame larger than the cap, every edge of    *)
(* the returned viewport is within floor(max_dim / cap) of the hole's.     *)
C6_EdgesWithinFloor ==
    (pc = "return" /\ SolidFrame /\ FrameMaxDim > cap) =>
        LET k == FrameMaxDim \div cap
            hole == HoleRectangle
        IN /\ Abs(Left - hole[1][1]) <= k
           /\ Abs(Top - hole[1][2]) <= k
           /\ Abs((Left + Width) - (hole[1][1] + hole[2][1])) <= k
           /\ Abs((Top + Height) - (hole[1][2] + hole[2][2])) <= k

(* 4-connectivity, stated on its own: the pixels of M joined to an edge    *)
(* pixel of M by a chain of side-adjacent pixels of M.                     *)
Adjacent(p, q) == Abs(p[1] - q[1]) + Abs(p[2] - q[2]) = 1

OnEdge(p, size) ==
    p[1] = 0 \/ p[2] = 0 \/ p[1] = size[1] - 1 \/ p[2] = size[2] - 1

RECURSIVE Closure(_, _)
Closure(S, M) ==
    LET T == S \cup {q \in M : \E p \in S : Adjacent(p, q)}
    IN IF T = S THEN S ELSE Closure(T, M)

EdgeConnected(M, size) == Closure({p \in M : OnEdge(p, size)}, M)

(* C9: after the border loop a pixel is marked iff it was marked before    *)
(* and is not 4-connected through marked pixels to a marked edge pixel;    *)
(* no edge pixel stays marked.                                             *)
C9_FloodRemovesEdgeRegions ==
    (pc = "bbox") =>
        /\ scaled_mask = mask_in \ EdgeConnected(mask_in, mask_size)
        /\ \A p \in scaled_mask : ~OnEdge(p, mask_size)

C9_Witness ==
    /\ pc = "bbox"
    /\ scaled_mask # {}
    /\ Cardinality(mask_in \ scaled_mask) >= 2

(* C10: when an aperture is found, the viewport lies inside the device     *)
(* bounds, downscaled or not.                                              *)
C10_ViewportInsideDevice ==
    (pc = "return" /\ ret = "aperture") =>
        /\ Left >= device_bbox[1]
        /\ Top >= device_bbox[2]
        /\ Left + Width <= device_bbox[3]
        /\ Top + Height <= device_bbox[4]

C10_Witness ==
    /\ pc = "return" /\ ret = "aperture" /\ Downscaled
    /\ solid_mask(image) = {}
    /\ device_bbox[1] > 0
    /\ device_bbox[4] < image.h

-----------------------------------------------------------------------------
(* Properties of build_catalog and main.                                   *)

Min(a, b) == IF a <= b THEN a ELSE b

(* a <= b in lexicographic order, stated on positions: the strings agree   *)
(* on a prefix after which a ends or has the smaller character.            *)
StrLeq(a, b) ==
    \E k \in 0..Min(Len(a), Len(b)) :
        /\ \A i \in 1..k : a[i] = b[i]
        /\ \/ k = Len(a)
           \/ k < Len(b) /\ a[k + 1] < b[k + 1]

StrLt(a, b) == StrLeq(a, b) /\ a # b

(* (category, name, relative_path) of e1 is not after that of e2.          *)
KeyLeq(e1, e2) ==
    \/ StrLt(e1.category, e2.category)
    \/ /\ e1.category = e2.category
       /\ \/ StrLt(e1.name, e2.name)
          \/ /\ e1.name = e2.name
             /\ StrLeq(e1.relative_path, e2.relative_path)

Returned == cpc \in {"built", "written"}

DiscoveryOrder ==
    [i \in 1..Len(yielded) |-> describe_png(yielded[i], tree.root, cap)]

(* C4: whatever the order of discovery, every adjacent pair of the         *)
(* returned files is in non-decreasing (category, name, relative_path)     *)
(* order.                                                                  *)
C4_FilesSorted ==
    Returned =>
        \A i \in 1..(Len(catalog[1].files) - 1) :
            KeyLeq(catalog[1].files[i], catalog[1].files[i + 1])

C4_Witness ==
    /\ cpc = "written"
    /\ Len(output[1].files) = MaxFiles
    /\ output[1].files # DiscoveryOrder
    /\ \E i \in 1..(MaxFiles - 1) :
          /\ output[1].files[i].name = output[1].files[i + 1].name
          /\ output[1].files[i].category = output[1].files[i + 1].category

(* C5: once an asset fails to decode, build_catalog has returned no        *)
(* catalog and main has written no output, however many assets were        *)
(* described before.                                                       *)
C5_DecodeFailureAborts ==
    (error = "DecodeError") => (catalog = <<>> /\ output = <<>>)

C5_Witness ==
    /\ error = "DecodeError"
    /\ cpc = "raised"
    /\ Len(files) >= 1
    /\ Pending # {}

-----------------------------------------------------------------------------
(* Properties of slugify and path_has_shadow.                              *)

UpperChar(c) == IF c \in 97..122 THEN c - 32 ELSE c

EqualIgnoringCase(a, b) ==
    /\ Len(a) = Len(b)
    /\ \A i \in 1..Len(a) : UpperChar(a[i]) = UpperChar(b[i])

(* C7: has_shadow is true iff some segment of the asset's path equals, as  *)
(* a whole and ignoring case, a name of the shadow-directory set.          *)
C7_ShadowIffWholeSegment ==
    (npc = "described") =>
        (has_shadow <=>
            \E i \in 1..Len(path) :
                \E name \in SHADOW_DIR_NAMES : EqualIgnoringCase(path[i], name))

C7_Witness ==
    /\ npc = "described"
    /\ has_shadow
    /\ path = <<SegHyphenated, SegMixedCase, FileShadowName>>

Alnum(c) == (97 <= c /\ c <= 122) \/ (48 <= c /\ c <= 57)

(* The lower-cased alphanumeric runs of s, in order, one hyphen between    *)
(* consecutive runs: read left to right, remembering whether a gap was     *)
(* crossed since the last character kept.                                  *)
RECURSIVE JoinRuns(_, _, _)
JoinRuns(s, out, gap) ==
    IF s = <<>> THEN out
    ELSE IF Alnum(LowerChar(Head(s)))
         THEN JoinRuns(Tail(s),
                       (IF gap /\ out # <<>> THEN Append(out, 45) ELSE out)
                           \o <<LowerChar(Head(s))>>,
                       FALSE)
         ELSE JoinRuns(Tail(s), out, TRUE)

SlugArgument ==
    IF npc = "described" THEN value \o Hyphen \o Stem(path) ELSE value

(* C8: the slug is the lower-cased input with each maximal run outside     *)
(* [a-z0-9] turned into one hyphen and the outer hyphens removed, or       *)
(* "unknown" when nothing is left; it is never empty, holds only           *)
(* [a-z0-9-], and has no leading, trailing or doubled hyphen.              *)
C8_SlugNormalForm ==
    (npc \in {"slugified", "described"}) =>
        /\ slug = (IF JoinRuns(SlugArgument, <<>>, FALSE) = <<>>
                   THEN unknown
                   ELSE JoinRuns(SlugArgument, <<>>, FALSE))
        /\ slug # <<>>
        /\ \A i \in 1..Len(slug) : Alnum(slug[i]) \/ slug[i] = 45
        /\ slug[1] # 45
        /\ slug[Len(slug)] # 45
        /\ \A i \in 1..(Len(slug) - 1) : ~(slug[i] = 45 /\ slug[i + 1] = 45)
        /\ (\A i \in 1..Len(SlugArgument) : ~Alnum(LowerChar(SlugArgument[i])))
               => slug = unknown

C8_Witness ==
    /\ npc = "slugified"
    /\ value = <<65, 64, 32, 122>>
    /\ slug = <<97, 45, 122>>

====
